---------------------------- MODULE Spec2Model ----------------------------
(***************************************************************************)
(* Model of the command dispatch core of email_center                      *)
(* (src/command_processor.py): the Command record, the process-wide        *)
(* COMMAND_REGISTRY with its `command` decorator, parse_command and        *)
(* handle_command; and of the mail plumbing around it                      *)
(* (src/mail_service.py): send_email_to_recipients,                        *)
(* process_single_imap_message and imap_command_loop.                      *)
(*                                                                         *)
(* Python strings that the code inspects character by character (command   *)
(* names, arguments, mail bodies) are sequences of one-character strings.  *)
(* Strings the code only passes around (log tags, outcome reasons,         *)
(* exception class names) are TLA+ strings.                                *)
(***************************************************************************)
EXTENDS Integers, Sequences, FiniteSets, TLC

VARIABLES
    registry,   \* COMMAND_REGISTRY: normalized name -> handler
    regs,       \* the registrations made so far, oldest first
    text,       \* body_text of the last parse_command call
    cmd,        \* the current Command, or None
    origin,     \* how cmd was produced: "none", "parse", "direct"
    outcome,    \* how the handle_command call on cmd ended, or NoOutcome
    events,     \* what that call did, in order: log calls, lookup, handler call
    smtp,       \* the current call of send_email_to_recipients
    imap        \* the command folder and the position of imap_command_loop

vars == <<registry, regs, text, cmd, origin, outcome, events, smtp, imap>>

-----------------------------------------------------------------------------
(* Bounds of the model. *)

\* Longest body text enumerated by the parser specification.
MaxTextLen == 5

\* Most registrations made after the static ones.
MaxRegs == 2

\* Longest recipient list handed to send_email_to_recipients.
MaxRecipients == 3

\* Most mails delivered to the command folder.
MaxMails == 2

\* Most dispatches of the command of one mail that are followed.
MaxDispatches == 2

-----------------------------------------------------------------------------
(* Characters and the str methods parse_command relies on. *)

\* Characters the enumerated body texts are made of: the marker, a letter in
\* both cases, a blank, and three line boundaries (line feed, carriage
\* return, form feed).
Alphabet == {"/", "a", "A", " ", "\n", "\r", "\f"}

\* The whitespace str.strip() and str.split() remove when called without
\* arguments, among the characters the model uses.
Whitespace == {" ", "\t", "\n", "\r", "\f"}

\* str.isspace() on one character.
IsSpace(c) == c \in Whitespace

\* The line boundaries of str.splitlines(), among the characters the model
\* uses (Python also splits on \v, \x1c, \x1d, \x1e, \x85, \u2028, \u2029).
IsLineBreak(c) == c \in {"\n", "\r", "\f"}

UpperCase ==
    <<"A", "B", "C", "D", "E", "F", "G", "H", "I", "J", "K", "L", "M",
      "N", "O", "P", "Q", "R", "S", "T", "U", "V", "W", "X", "Y", "Z">>

LowerCase ==
    <<"a", "b", "c", "d", "e", "f", "g", "h", "i", "j", "k", "l", "m",
      "n", "o", "p", "q", "r", "s", "t", "u", "v", "w", "x", "y", "z">>

UpperLetters == {UpperCase[i] : i \in DOMAIN UpperCase}

LowerLetters == {LowerCase[i] : i \in DOMAIN LowerCase}

\* The lower-case letter of each upper-case letter.
LowerOf ==
    [c \in UpperLetters |->
        LowerCase[CHOOSE i \in DOMAIN UpperCase : UpperCase[i] = c]]

\* The upper-case letter of each lower-case letter.
UpperOf ==
    [c \in LowerLetters |->
        UpperCase[CHOOSE i \in DOMAIN LowerCase : LowerCase[i] = c]]

\* str.lower() on one character.
LowerChar(c) == IF c \in UpperLetters THEN LowerOf[c] ELSE c

\* str.lower()
lower(s) == [i \in DOMAIN s |-> LowerChar(s[i])]

\* str.lstrip(chars): drop the longest prefix made of characters of `chars`.
RECURSIVE lstrip(_, _)
lstrip(s, chars) ==
    IF s # <<>> /\ Head(s) \in chars THEN lstrip(Tail(s), chars) ELSE s

\* str.rstrip(chars)
RECURSIVE rstrip(_, _)
rstrip(s, chars) ==
    IF s # <<>> /\ s[Len(s)] \in chars
    THEN rstrip(SubSeq(s, 1, Len(s) - 1), chars)
    ELSE s

\* str.strip() without arguments.
strip(s) == rstrip(lstrip(s, Whitespace), Whitespace)

\* Index of the first line boundary of s at or after i, or Len(s) + 1.
RECURSIVE FirstBreak(_, _)
FirstBreak(s, i) ==
    IF i > Len(s) \/ IsLineBreak(s[i]) THEN i ELSE FirstBreak(s, i + 1)

\* Index of the first whitespace character of s at or after i, or Len(s) + 1.
RECURSIVE FirstSpace(_, _)
FirstSpace(s, i) ==
    IF i > Len(s) \/ IsSpace(s[i]) THEN i ELSE FirstSpace(s, i + 1)

\* str.splitlines(): the lines of s without their boundaries; "\r\n" is one
\* boundary; a final boundary opens no further line.
RECURSIVE splitlines(_)
splitlines(s) ==
    IF s = <<>> THEN <<>>
    ELSE LET i == FirstBreak(s, 1)
             skip == IF /\ i < Len(s)
                        /\ s[i] = "\r"
                        /\ s[i + 1] = "\n"
                     THEN 2 ELSE 1
         IN  IF i > Len(s) THEN <<s>>
             ELSE <<SubSeq(s, 1, i - 1)>>
                    \o splitlines(SubSeq(s, i + skip, Len(s)))

\* str.split() without arguments: the maximal runs of non-whitespace.
RECURSIVE split(_)
split(s) ==
    LET t == lstrip(s, Whitespace)
    IN  IF t = <<>> THEN <<>>
        ELSE LET i == FirstSpace(t, 1)
             IN  <<SubSeq(t, 1, i - 1)>> \o split(SubSeq(t, i, Len(t)))

-----------------------------------------------------------------------------
(* Command, normalization and parsing. *)

\* Python's None, as returned by parse_command.
None == [absent |-> TRUE]

\* The Command dataclass.
Command(name, args, raw_text) ==
    [name |-> name, args |-> args, raw_text |-> raw_text]

\* A normalization that removes one leading "/" only.
normalize_one_marker(name) ==
    LET s == strip(name)
    IN  lower(IF s # <<>> /\ Head(s) = "/" THEN Tail(s) ELSE s)

\* normalize_command_name: name.strip().lstrip("/").lower()
normalize_command_name(name) == lower(lstrip(strip(name), {"/"}))

\* An outer trim that removes trailing whitespace only.
StripBodyTrailingOnly(body_text) == rstrip(body_text, Whitespace)

\* stripped = body_text.strip()
StripBody(body_text) == strip(body_text)

\* A command line that is the whole stripped text.
FirstLineWholeText(stripped) == strip(stripped)

\* first_line = stripped.splitlines()[0].strip()
FirstLine(stripped) == strip(splitlines(stripped)[1])

\* parse_command, with its early returns in the order of the code.
parse_command(body_text) ==
    IF body_text = <<>> THEN None
    ELSE LET stripped == StripBody(body_text)
         IN  IF stripped = <<>> THEN None
             ELSE LET first_line == FirstLine(stripped)
                  IN  IF first_line = <<>> THEN None
                      ELSE LET parts == split(first_line)
                           IN  IF parts = <<>> THEN None
                               ELSE LET raw_name == parts[1]
                                        args == Tail(parts)
                                        normalized_name ==
                                            normalize_command_name(raw_name)
                                    IN  IF normalized_name = <<>> THEN None
                                        ELSE Command(normalized_name, args,
                                                     body_text)

\* All body texts of at most MaxTextLen characters over Alphabet.
Texts == UNION {[1..n -> Alphabet] : n \in 0..MaxTextLen}

-----------------------------------------------------------------------------
(* Names and handlers. *)

\* The names of the three static registrations, as written in the source.
NameCheckCampusIp ==
    <<"c", "h", "e", "c", "k", "_", "c", "a", "m", "p", "u", "s", "_", "i", "p">>

NameSlashHealth == <<"/", "h", "e", "a", "l", "t", "h">>

NameSlashDeviceHealth ==
    <<"/", "d", "e", "v", "i", "c", "e", "_", "h", "e", "a", "l", "t", "h">>

\* The handlers defined in command_processor.py.
RepoHandlers == {"check_campus_ip", "self_health", "device_health"}

\* Callables another module may hand to the `command` decorator: one that
\* returns its arguments (the example_command of the source), and one that
\* ends the process with sys.exit(), which raises SystemExit.
ExternalHandlers == {"echo", "quit"}

\* An exception object: its class and the repr of its arguments.
Exc(cls, args) == [cls |-> cls, args |-> args]

\* Python's built-in hierarchy: the classes that derive from BaseException
\* without deriving from Exception.
NonExceptionClasses == {"SystemExit", "KeyboardInterrupt", "GeneratorExit"}

\* isinstance(e, Exception): what the clause `except Exception` matches.
IsException(e) == e.cls \notin NonExceptionClasses

\* repr(e) of an exception: ClassName(args).
Repr(e) == e.cls \o "(" \o e.args \o ")"

\* What the collaborators of the handlers (requests.get, subprocess.run,
\* send_email_to_recipients) may raise.
FetchErrors == {Exc("ConnectionError", "'unreachable'"), Exc("HTTPError", "'500'")}

PingErrors == {Exc("FileNotFoundError", "'ping'")}

SendErrors == {Exc("SMTPAuthenticationError", "535")}

\* How a call of a handler ends. Returned dicts are records whose values are
\* the repr of the Python values ("True", "'False'", "200").
Return(value) == [kind |-> "return", value |-> value]

Raise(e) == [kind |-> "raise", exc |-> e]

\* One call a handler makes to a collaborator (op is "fetch" for
\* requests.get with raise_for_status and json, "ping" for subprocess.run,
\* "send" for send_email_to_recipients) and how that call ended.
Worked(op) == [op |-> op, kind |-> "return"]

Failed(op, e) == [op |-> op, kind |-> "raise", exc |-> e]

\* A handler call that ended as r after the collaborator calls in work.
After(work, r) == [kind |-> r.kind, work |-> work] @@ r

\* check_campus_ip: the fetch, then the send; the `except Exception` clause
\* of the handler turns an Exception of either into a returned dict.
check_campus_ip(params) ==
    {After(<<Worked("fetch"), Worked("send")>>,
           Return([ok |-> "True", status_code |-> "200", result |-> "results"]))}
    \cup {After(<<Failed("fetch", e)>>,
                Return([ok |-> "False", error |-> Repr(e)])) : e \in FetchErrors}
    \cup {After(<<Worked("fetch"), Failed("send", e)>>,
                Return([ok |-> "False", error |-> Repr(e)])) : e \in SendErrors}

\* self_health: sends the status mail with no try block of its own.
self_health(params) ==
    {After(<<Worked("send")>>, Return([result |-> "results"]))}
    \cup {After(<<Failed("send", e)>>, Raise(e)) : e \in SendErrors}

\* device_health: ping, then mail when the ping succeeded; the `except
\* Exception` clause of the handler turns an Exception of either into a
\* returned dict. A ping that ran and reported the host down did not raise.
device_health(params) ==
    {After(<<Worked("ping"), Worked("send")>>,
           Return([ok |-> "True", ping |-> "success", mail_results |-> "results"])),
     After(<<Worked("ping")>>, Return([ok |-> "'False'", ping |-> "failed"]))}
    \cup {After(<<Failed("ping", e)>>,
                Return([ok |-> "False", error |-> Repr(e)])) : e \in PingErrors}
    \cup {After(<<Worked("ping"), Failed("send", e)>>,
                Return([ok |-> "False", error |-> Repr(e)])) : e \in SendErrors}

\* example_command: returns {"echo": args}.
echo(params) == {After(<<>>, Return([echo |-> params]))}

\* A handler that calls sys.exit(0).
quit(params) == {After(<<>>, Raise(Exc("SystemExit", "0")))}

\* handler(*params): the ways the call can end.
Invoke(h, params) ==
    CASE h = "check_campus_ip" -> check_campus_ip(params)
      [] h = "self_health"     -> self_health(params)
      [] h = "device_health"   -> device_health(params)
      [] h = "echo"            -> echo(params)
      [] h = "quit"            -> quit(params)

-----------------------------------------------------------------------------
(* The registry and the `command` decorator. *)

\* A registration: command(name)(func).
Registration(name, func) == [name |-> name, func |-> func]

\* A registration that keeps the handler a key already has.
RegistryPutKeepFirst(reg, name, func) ==
    LET key == normalize_command_name(name)
    IN  IF key \in DOMAIN reg THEN reg
        ELSE [k \in DOMAIN reg \cup {key} |-> IF k = key THEN func ELSE reg[k]]

\* A registration that stores the handler under the name as given.
RegistryPutRawName(reg, name, func) ==
    [k \in DOMAIN reg \cup {name} |-> IF k = name THEN func ELSE reg[k]]

\* decorator(func) inside command(name): COMMAND_REGISTRY[key] = func, the
\* key being the normalized name.
RegistryPut(reg, name, func) ==
    LET key == normalize_command_name(name)
    IN  [k \in DOMAIN reg \cup {key} |-> IF k = key THEN func ELSE reg[k]]

\* The registrations command_processor.py makes when it is imported, in the
\* order of the file.
StaticRegistrations ==
    <<Registration(NameCheckCampusIp, "check_campus_ip"),
      Registration(NameSlashHealth, "self_health"),
      Registration(NameSlashDeviceHealth, "device_health")>>

\* COMMAND_REGISTRY starts as the empty dict.
EmptyRegistry == [k \in {} |-> "none"]

\* The registry after the registrations rs, applied oldest first.
RECURSIVE RegistryAfter(_, _)
RegistryAfter(reg, rs) ==
    IF rs = <<>> THEN reg
    ELSE RegistryAfter(RegistryPut(reg, Head(rs).name, Head(rs).func), Tail(rs))

-----------------------------------------------------------------------------
(* handle_command. *)

\* A call of logger.info / logger.warning / logger.error.
Log(level, tag, fields) ==
    [type |-> "log", level |-> level, tag |-> tag, fields |-> fields]

\* COMMAND_REGISTRY.get(cmd.name) evaluated.
LookupEvent(name) == [type |-> "lookup", name |-> name]

\* The handler called with the positional parameters params, and how the
\* call ended.
CallEvent(h, params, r) ==
    [type |-> "call", handler |-> h, params |-> params, result |-> r]

\* A Python value handed to a handler: a str or a list of str.
Str(s) == [kind |-> "str", val |-> s]

List(l) == [kind |-> "list", val |-> l]

\* handler(cmd.args): the list as the only positional parameter.
PassArgsAsList(args) == <<List(args)>>

\* handler(*cmd.args): each argument becomes one positional parameter.
ExpandArgs(args) == [i \in DOMAIN args |-> Str(args[i])]

\* COMMAND_REGISTRY.get(cmd.name): the handler stored under exactly that key.
NoHandler == "None"

\* A lookup that normalizes the name again before looking it up.
LookupNormalized(reg, name) ==
    IF normalize_command_name(name) \in DOMAIN reg
    THEN reg[normalize_command_name(name)]
    ELSE NoHandler

Lookup(reg, name) == IF name \in DOMAIN reg THEN reg[name] ELSE NoHandler

\* A miss reported with an error field.
NotFoundResultWithError(c, meta) ==
    [handled |-> FALSE, reason |-> "handler_not_found", command |-> c.name,
     args |-> c.args, meta |-> meta, error |-> "not found"]

\* The three result dicts handle_command builds.
NotFoundResult(c, meta) ==
    [handled |-> FALSE, reason |-> "handler_not_found", command |-> c.name,
     args |-> c.args, meta |-> meta]

SuccessResult(c, meta, handler_result) ==
    [handled |-> TRUE, command |-> c.name, args |-> c.args, meta |-> meta,
     handler_result |-> handler_result]

ExceptionResult(c, meta, e) ==
    [handled |-> FALSE, reason |-> "handler_exception", command |-> c.name,
     args |-> c.args, meta |-> meta, error |-> Repr(e)]

\* How a call of handle_command ends: it returns a result dict, or an
\* exception leaves it.
NoOutcome == [status |-> "none"]

Returned(result) == [status |-> "returned", result |-> result]

Propagated(e) == [status |-> "raised", exc |-> e]

StartLog(c, meta) ==
    Log("info", "COMMAND_HANDLE_START",
        [name |-> c.name, args |-> c.args, meta |-> meta])

EndLog(result) == Log("info", "COMMAND_HANDLE_END", [result |-> result])

\* handle_command after the lookup found handler h: the try block around
\* handler(*cmd.args), the `except Exception` clause, and the final log and
\* return. r is how the handler call ends; before is what happened so far.
AfterLookup(c, meta, h, r, before) ==
    LET call == CallEvent(h, ExpandArgs(c.args), r)
    IN  IF r.kind = "return"
        THEN LET result == SuccessResult(c, meta, r.value)
             IN  [outcome |-> Returned(result),
                  events |-> before \o <<call, EndLog(result)>>]
        ELSE IF IsException(r.exc)
        THEN LET result == ExceptionResult(c, meta, r.exc)
             IN  [outcome |-> Returned(result),
                  events |-> before \o
                      <<call,
                        Log("error", "COMMAND_HANDLER_ERROR",
                            [name |-> c.name, error |-> Repr(r.exc)]),
                        EndLog(result)>>]
        ELSE [outcome |-> Propagated(r.exc), events |-> before \o <<call>>]

\* handle_command(cmd, meta, logger) on registry reg: every way the call can
\* end, with the events of the call in order.
handle_command(reg, c, meta) ==
    LET before == <<StartLog(c, meta), LookupEvent(c.name)>>
        handler == Lookup(reg, c.name)
    IN  IF handler = NoHandler
        THEN LET result == NotFoundResult(c, meta)
             IN  {[outcome |-> Returned(result),
                   events |-> before \o
                       <<Log("warning", "COMMAND_HANDLER_NOT_FOUND",
                             [name |-> c.name]),
                         EndLog(result)>>]}
        ELSE {AfterLookup(c, meta, handler, r, before) :
                r \in Invoke(handler, ExpandArgs(c.args))}

-----------------------------------------------------------------------------
(* Inputs. *)

NameUp == <<"u", "p">>

NameHealth == <<"h", "e", "a", "l", "t", "h">>

\* str.upper() on one character, used to spell the inputs.
UpperChar(c) == IF c \in LowerLetters THEN UpperOf[c] ELSE c

upper(s) == [i \in DOMAIN s |-> UpperChar(s[i])]

capitalize(s) == [i \in DOMAIN s |-> IF i = 1 THEN UpperChar(s[i]) ELSE s[i]]

\* The runs of marker characters put before a name in a mail body.
SlashPrefixes == {<<>>, <<"/">>, <<"/", "/">>}

\* Names handed to the `command` decorator after the static registrations:
\* a new name in two spellings, the name of a static registration, and a
\* name made of the marker alone.
RegNames == {NameUp, <<"/">> \o capitalize(NameUp), NameHealth, <<"/">>}

\* Argument lists of the commands.
ArgLists == {<<>>, << <<"x">>, <<"y">> >>}

\* s1 s2 ... joined by single blanks after a first token.
RECURSIVE JoinArgs(_, _)
JoinArgs(token, args) ==
    IF args = <<>> THEN token
    ELSE JoinArgs(token \o <<" ">> \o Head(args), Tail(args))

\* First tokens of the mail bodies: a run of markers, then nothing or a name
\* in lower case, upper case or capitalized.
FirstTokens ==
    {p \o w :
        p \in SlashPrefixes,
        w \in {<<>>} \cup UNION {{b, upper(b), capitalize(b)} :
                                    b \in {NameHealth, NameUp}}}

\* One-line mail bodies: a first token and arguments.
CommandTexts == {JoinArgs(t, a) : t \in FirstTokens, a \in ArgLists}

\* Names of Command objects built without parse_command: the keys of the
\* three static registrations, and names that are no key as they stand.
DirectNames ==
    {NameHealth, NameCheckCampusIp, normalize_command_name(NameSlashDeviceHealth),
     NameSlashHealth, capitalize(NameHealth), SubSeq(NameHealth, 1, 4)}

\* The meta dicts of the callers.
Metas ==
    {[subject |-> "COMMAND", from |-> "alice", message_id |-> "<1>"],
     [subject |-> "command", from |-> "bob", message_id |-> "<2>"]}

-----------------------------------------------------------------------------
(* send_email_to_recipients. *)

\* Recipient addresses and the recipient lists of the callers.
Addresses == {"a@x", "b@x"}

RecipientLists == UNION {[1..n -> Addresses] : n \in 0..MaxRecipients}

\* What server.sendmail may raise for one recipient.
SendmailErrors == {Exc("SMTPRecipientsRefused", "{}")}

\* What MIMEText(...) and Header(subject, "utf-8") raise for a string that
\* has no UTF-8 encoding (a lone surrogate).
BuildError == Exc("UnicodeEncodeError", "'utf-8'")

\* No call of send_email_to_recipients is in progress.
NoSend == [pc |-> "idle"]

\* The call after its connection phase (SMTP(), ehlo, starttls, login)
\* succeeded: results is the list built so far, attempts the sendmail calls
\* made so far with how each ended, encodable whether subject, text_content,
\* html_content and from_name can be encoded.
LoggedIn(recipients, encodable) ==
    [pc |-> "loop", logged_in |-> TRUE, recipients |-> recipients,
     encodable |-> encodable, results |-> <<>>, attempts |-> <<>>]

\* The call left by the exception e of its connection phase.
ConnectFailed(recipients, encodable, e) ==
    [pc |-> "raised", logged_in |-> FALSE, recipients |-> recipients,
     encodable |-> encodable, results |-> <<>>, attempts |-> <<>>, exc |-> e]

\* One element of the returned list.
SendResult(to_addr, ok, err_msg) ==
    [to |-> to_addr, success |-> ok, error |-> err_msg]

\* A loop body that gives up the whole call when sendmail raises.
AfterSendmailAbortOnError(st, to_addr, r) ==
    IF r.kind = "return"
    THEN [st EXCEPT !.results = Append(@, SendResult(to_addr, TRUE, "")),
                    !.attempts = Append(@, [to |-> to_addr, kind |-> r.kind])]
    ELSE [pc |-> "raised", exc |-> r.exc] @@
         [st EXCEPT !.attempts = Append(@, [to |-> to_addr, kind |-> r.kind])]

\* The try block around server.sendmail for one recipient and the
\* results.append that follows it; r is how sendmail ended.
AfterSendmail(st, to_addr, r) ==
    [st EXCEPT
        !.results = Append(@, IF r.kind = "return"
                              THEN SendResult(to_addr, TRUE, "")
                              ELSE SendResult(to_addr, FALSE, Repr(r.exc))),
        !.attempts = Append(@, [to |-> to_addr, kind |-> r.kind])]

\* One iteration of the for loop: the message is built outside the try
\* block, so an exception of the build leaves the function (through the
\* finally clause); then sendmail is tried.
LoopBody(st) ==
    LET to_addr == st.recipients[Len(st.results) + 1]
    IN  IF ~st.encodable
        THEN {[pc |-> "raised", exc |-> BuildError] @@ st}
        ELSE {AfterSendmail(st, to_addr, r) :
                r \in {Return("None")} \cup {Raise(e) : e \in SendmailErrors}}

-----------------------------------------------------------------------------
(* process_single_imap_message and the command folder. *)

\* msg.get("Message-ID") of a header with raw 8-bit bytes is an
\* email.header.Header object, not a str; the string stands for that object.
HeaderObject == "<email.header.Header object>"

\* A mail of the command folder: the decoded Subject and From, the
\* Message-ID as msg.get gives it, and the text extract_text_body returns.
Mail(subject, from, message_id, body) ==
    [subject |-> subject, from |-> from, message_id |-> message_id,
     body |-> body]

SubjectCommand == <<"C", "O", "M", "M", "A", "N", "D">>

\* The mails that arrive: a command, the same command under a subject in
\* another spelling and with an 8-bit Message-ID, a mail that is no command
\* mail, a command mail without a command, and an unknown command.
Mails ==
    {Mail(SubjectCommand, "alice", "<1>", NameSlashHealth),
     Mail(<<" ">> \o lower(SubjectCommand), "bob", HeaderObject, NameSlashHealth),
     Mail(<<"h", "i">>, "carol", "<3>", NameSlashHealth),
     Mail(SubjectCommand, "dave", "<4>", <<"/">>),
     Mail(SubjectCommand, "erin", "<5>", NameUp)}

\* subject.strip().upper() != "COMMAND"
IsCommandSubject(subject) == upper(strip(subject)) = SubjectCommand

\* The meta dict built for a command mail.
MetaOf(m) ==
    [subject |-> m.subject, from |-> m.from, message_id |-> m.message_id]

\* json.dumps(result, ensure_ascii=False) returns for a result made of
\* dicts, lists, strings, numbers and booleans, and raises TypeError for a
\* result that holds any other object.
JsonDumpsRaises(result) == result.meta.message_id = HeaderObject

\* What an IMAP call raises when the connection is lost.
ImapErrors == {Exc("abort", "'socket error: EOF'")}

\* How one call of process_single_imap_message ended: by `return`, by an
\* Exception, or by an exception that is no Exception; whether the fetch
\* answered OK, whether handle_command was called, and whether the mail has
\* the \Seen flag afterwards.
Processed(ended, fetched, dispatched, seen) ==
    [ended |-> ended, fetched |-> fetched, dispatched |-> dispatched,
     seen |-> seen]

\* M.store(num, "+FLAGS", "\\Seen") and the return after it: the flag is
\* set, or the call raises and the flag stays as it was.
StoreSeen(dispatched, seen) ==
    {Processed("return", TRUE, dispatched, TRUE)}
    \cup {Processed("raise", TRUE, dispatched, seen) : e \in ImapErrors}

\* The body of process_single_imap_message after a fetch that answered OK,
\* on mail m whose flag is seen after the fetch.
AfterFetch(reg, m, seen) ==
    IF ~IsCommandSubject(m.subject)
    THEN StoreSeen(FALSE, seen)
    ELSE LET c == parse_command(m.body)
         IN  IF c = None
             THEN StoreSeen(FALSE, seen)
             ELSE UNION
                  {IF r.outcome.status = "raised"
                   THEN {Processed("exit", TRUE, TRUE, seen)}
                   ELSE IF JsonDumpsRaises(r.outcome.result)
                   THEN {Processed("raise", TRUE, TRUE, seen)}
                   ELSE StoreSeen(TRUE, seen) :
                     r \in handle_command(reg, c, MetaOf(m))}

\* process_single_imap_message(M, num) on mail m: the fetch raises, answers
\* something other than OK, or answers OK; a server may set \Seen itself
\* when it answers a fetch of RFC822.
process_single_imap_message(reg, m, seen) ==
    {Processed("raise", FALSE, FALSE, seen) : e \in ImapErrors}
    \cup {Processed("return", FALSE, FALSE, seen)}
    \cup UNION {AfterFetch(reg, m, seen \/ implicit) : implicit \in BOOLEAN}

\* data[0].split() of the UNSEEN search: the numbers of the mails without
\* the flag, in ascending order.
RECURSIVE Unseen(_, _)
Unseen(seen, i) ==
    IF i > Len(seen) THEN <<>>
    ELSE IF seen[i] THEN Unseen(seen, i + 1)
    ELSE <<i>> \o Unseen(seen, i + 1)

-----------------------------------------------------------------------------
(* The state machine. *)

Init ==
    /\ registry = RegistryAfter(EmptyRegistry, StaticRegistrations)
    /\ regs = StaticRegistrations
    /\ text = <<>>
    /\ cmd = None
    /\ origin = "none"
    /\ outcome = NoOutcome
    /\ events = <<>>
    /\ smtp = NoSend
    /\ imap = [pc |-> "down", mails |-> <<>>, seen |-> <<>>,
               dispatched |-> <<>>, nums |-> <<>>, last |-> None]

\* command(name)(func)
Register(name, func) ==
    /\ Len(regs) < Len(StaticRegistrations) + MaxRegs
    /\ registry' = RegistryPut(registry, name, func)
    /\ regs' = Append(regs, Registration(name, func))
    /\ UNCHANGED <<text, cmd, origin, outcome, events, smtp, imap>>

\* cmd = parse_command(body_text), on the body of the next mail.
ParseCommand(body_text) ==
    /\ origin = "none"
    /\ text' = body_text
    /\ cmd' = parse_command(body_text)
    /\ origin' = "parse"
    /\ UNCHANGED <<registry, regs, outcome, events, smtp, imap>>

\* cmd = Command(name=name, args=args, raw_text=name), built by a caller
\* that does not go through parse_command.
DirectCommand(name, args) ==
    /\ origin = "none"
    /\ text' = name
    /\ cmd' = Command(name, args, name)
    /\ origin' = "direct"
    /\ UNCHANGED <<registry, regs, outcome, events, smtp, imap>>

\* handle_command(cmd, meta, logger), called once on a Command.
HandleCommand(meta) ==
    /\ origin # "none"
    /\ cmd # None
    /\ outcome = NoOutcome
    /\ \E r \in handle_command(registry, cmd, meta) :
          /\ outcome' = r.outcome
          /\ events' = r.events
    /\ UNCHANGED <<registry, regs, text, cmd, origin, smtp, imap>>

\* The caller is done with the text: no command was parsed, or the command
\* was dispatched. The Command and its outcome are dropped.
Discard ==
    /\ origin # "none"
    /\ cmd = None \/ outcome # NoOutcome
    /\ text' = <<>>
    /\ cmd' = None
    /\ origin' = "none"
    /\ outcome' = NoOutcome
    /\ events' = <<>>
    /\ UNCHANGED <<registry, regs, smtp, imap>>

\* The inputs of each operation; the guard of the operation comes first so
\* that the inputs are only enumerated where the operation can happen.
RegisterAny ==
    /\ Len(regs) < Len(StaticRegistrations) + MaxRegs
    /\ \E name \in RegNames, func \in ExternalHandlers : Register(name, func)

ParseMail ==
    /\ origin = "none"
    /\ \E body_text \in CommandTexts : ParseCommand(body_text)

ParseText ==
    /\ origin = "none"
    /\ \E body_text \in Texts : ParseCommand(body_text)

DirectAny ==
    /\ origin = "none"
    /\ \E name \in DirectNames, args \in ArgLists : DirectCommand(name, args)

HandleAny ==
    /\ outcome = NoOutcome
    /\ \E meta \in Metas : HandleCommand(meta)

Next == RegisterAny \/ ParseMail \/ DirectAny \/ HandleAny \/ Discard

\* Registration, parsing of mail bodies and dispatch.
Spec == Init /\ [][Next]_vars

NextParse == ParseText \/ Discard

\* parse_command alone, on every text of Texts.
SpecParse == Init /\ [][NextParse]_vars


\* send_email_to_recipients(...) is called: the connection phase (lines
\* 74-88) succeeds or raises.
SendConnect ==
    /\ smtp = NoSend
    /\ \E recipients \in RecipientLists, encodable \in BOOLEAN :
          \/ smtp' = LoggedIn(recipients, encodable)
          \/ \E e \in SendErrors : smtp' = ConnectFailed(recipients, encodable, e)
    /\ UNCHANGED <<registry, regs, text, cmd, origin, outcome, events, imap>>

\* The next iteration of the for loop.
SendNext ==
    /\ smtp.pc = "loop"
    /\ Len(smtp.results) < Len(smtp.recipients)
    /\ smtp' \in LoopBody(smtp)
    /\ UNCHANGED <<registry, regs, text, cmd, origin, outcome, events, imap>>

\* The loop is over: server.quit() and `return results`.
SendReturn ==
    /\ smtp.pc = "loop"
    /\ Len(smtp.results) = Len(smtp.recipients)
    /\ smtp' = [smtp EXCEPT !.pc = "returned"]
    /\ UNCHANGED <<registry, regs, text, cmd, origin, outcome, events, imap>>

\* The caller is done with the call.
SendForget ==
    /\ smtp.pc \in {"returned", "raised"}
    /\ smtp' = NoSend
    /\ UNCHANGED <<registry, regs, text, cmd, origin, outcome, events, imap>>

NextSend == SendConnect \/ SendNext \/ SendReturn \/ SendForget

\* send_email_to_recipients alone, on every recipient list.
SpecSend == Init /\ [][NextSend]_vars


\* A mail arrives in the command folder, unseen.
ImapDeliver ==
    /\ Len(imap.mails) < MaxMails
    /\ \E m \in Mails :
          imap' = [imap EXCEPT !.mails = Append(@, m),
                               !.seen = Append(@, FALSE),
                               !.dispatched = Append(@, 0)]
    /\ UNCHANGED <<registry, regs, text, cmd, origin, outcome, events, smtp>>

\* imap_command_loop connects and logs in, at its start or after the
\* `except Exception` clause and its sleep.
ImapLogin ==
    /\ imap.pc = "down"
    /\ imap' = [imap EXCEPT !.pc = "idle"]
    /\ UNCHANGED <<registry, regs, text, cmd, origin, outcome, events, smtp>>

\* One select and UNSEEN search: the round over the unseen mails begins, or
\* the connection is lost.
ImapSearch ==
    /\ imap.pc = "idle"
    /\ \/ imap' = [imap EXCEPT !.pc = "round", !.nums = Unseen(imap.seen, 1)]
       \/ imap' = [imap EXCEPT !.pc = "down"]
    /\ UNCHANGED <<registry, regs, text, cmd, origin, outcome, events, smtp>>

\* process_single_imap_message(M, num) on the next mail of the round. An
\* Exception ends the round in the `except Exception` clause of the loop; an
\* exception that is no Exception ends the thread.
ImapProcess ==
    /\ imap.pc = "round"
    /\ imap.nums # <<>>
    /\ imap.dispatched[Head(imap.nums)] < MaxDispatches
    /\ \E num \in {Head(imap.nums)} :
       \E p \in process_single_imap_message(registry, imap.mails[num],
                                            imap.seen[num]) :
          imap' = [imap EXCEPT
                      !.seen[num] = p.seen,
                      !.dispatched[num] = IF p.dispatched THEN @ + 1 ELSE @,
                      !.last = [num |-> num] @@ p,
                      !.nums = IF p.ended = "return" THEN Tail(@) ELSE <<>>,
                      !.pc = CASE p.ended = "return" -> "round"
                               [] p.ended = "raise"  -> "down"
                               [] p.ended = "exit"   -> "dead"]
    /\ UNCHANGED <<registry, regs, text, cmd, origin, outcome, events, smtp>>

\* The round is over: sleep until the next poll.
ImapSleep ==
    /\ imap.pc = "round"
    /\ imap.nums = <<>>
    /\ imap' = [imap EXCEPT !.pc = "idle"]
    /\ UNCHANGED <<registry, regs, text, cmd, origin, outcome, events, smtp>>

NextImap == ImapDeliver \/ ImapLogin \/ ImapSearch \/ ImapProcess \/ ImapSleep

\* The polling loop on the command folder, with the static registrations.
SpecImap == Init /\ [][NextImap]_vars

-----------------------------------------------------------------------------
(* Vocabulary of the properties, defined on the text itself and not through *)
(* the operators that model the code.                                       *)

\* The text is empty or made of whitespace only.
IsBlank(t) == \A i \in DOMAIN t : IsSpace(t[i])

\* The text without its leading and trailing whitespace.
Trimmed(t) ==
    IF IsBlank(t) THEN <<>>
    ELSE LET lo == CHOOSE i \in DOMAIN t :
                       ~IsSpace(t[i]) /\ \A j \in 1..(i - 1) : IsSpace(t[j])
             hi == CHOOSE i \in DOMAIN t :
                       ~IsSpace(t[i]) /\ \A j \in (i + 1)..Len(t) : IsSpace(t[j])
         IN  SubSeq(t, lo, hi)

\* The newline characters: line feed and carriage return.
IsNewline(c) == c \in {"\n", "\r"}

\* The text up to its first newline.
UpToFirstNewline(t) ==
    IF \E i \in DOMAIN t : IsNewline(t[i])
    THEN LET b == CHOOSE i \in DOMAIN t :
                      IsNewline(t[i]) /\ \A j \in 1..(i - 1) : ~IsNewline(t[j])
         IN  SubSeq(t, 1, b - 1)
    ELSE t

\* The text up to its first line boundary (newline or form feed).
UpToFirstBreak(t) ==
    IF \E i \in DOMAIN t : IsLineBreak(t[i])
    THEN LET b == CHOOSE i \in DOMAIN t :
                      IsLineBreak(t[i]) /\ \A j \in 1..(i - 1) : ~IsLineBreak(t[j])
         IN  SubSeq(t, 1, b - 1)
    ELSE t

\* The maximal runs of non-whitespace of t, as pairs <<first, last>>.
TokenRuns(t) ==
    {r \in (DOMAIN t) \X (DOMAIN t) :
        /\ r[1] <= r[2]
        /\ \A k \in r[1]..r[2] : ~IsSpace(t[k])
        /\ r[1] = 1 \/ IsSpace(t[r[1] - 1])
        /\ r[2] = Len(t) \/ IsSpace(t[r[2] + 1])}

\* The whitespace-delimited tokens of t, in their order in t.
Tokens(t) ==
    LET runs == TokenRuns(t)
        nth(k) == CHOOSE r \in runs :
                      Cardinality({q \in runs : q[1] < r[1]}) = k - 1
    IN  [k \in 1..Cardinality(runs) |-> SubSeq(t, nth(k)[1], nth(k)[2])]

\* The token is made of marker characters only.
OnlyMarkers(tok) == \A i \in DOMAIN tok : tok[i] = "/"

\* A line a command can be read from: its first token has a character that
\* is not the marker.
IsCommandLine(l) == ~IsBlank(l) /\ ~OnlyMarkers(Tokens(l)[1])

\* The text consists of one or more blank lines followed by a command line:
\* everything up to some line boundary is whitespace, and the line that
\* starts right after that boundary is a command line.
BlankLinesThenCommand(t) ==
    \E i \in DOMAIN t :
        /\ IsLineBreak(t[i])
        /\ \A j \in 1..i : IsSpace(t[j])
        /\ IsCommandLine(UpToFirstBreak(SubSeq(t, i + 1, Len(t))))

\* The text that follows the leading blank lines of t.
AfterBlankLines(t) ==
    LET i == CHOOSE k \in DOMAIN t :
                 /\ IsLineBreak(t[k])
                 /\ \A j \in 1..k : IsSpace(t[j])
                 /\ IsCommandLine(UpToFirstBreak(SubSeq(t, k + 1, Len(t))))
    IN  SubSeq(t, i + 1, Len(t))

-----------------------------------------------------------------------------
(* Properties of parse_command (specification SpecParse). *)

\* C5: parse_command returns None exactly when the text is empty, is
\* whitespace only, or has a first token made of marker characters only;
\* otherwise it returns a Command whose name is non-empty, has no upper-case
\* letter and does not start with "/". (That the call never raises shows in
\* parse_command being defined on every text: no index it takes is out of
\* range.)
C5_ParseAbsentOrProperName ==
    origin = "parse" =>
        IF IsBlank(text) \/ OnlyMarkers(Tokens(text)[1])
        THEN cmd = None
        ELSE /\ cmd # None
             /\ cmd.name # <<>>
             /\ \A i \in DOMAIN cmd.name : cmd.name[i] \notin UpperLetters
             /\ cmd.name[1] # "/"

\* A parsed text whose first token is made of markers only, after leading
\* whitespace: no Command.
C5_Witness ==
    /\ origin = "parse"
    /\ ~IsBlank(text)
    /\ IsSpace(text[1])
    /\ Len(Tokens(text)[1]) >= 2
    /\ OnlyMarkers(Tokens(text)[1])
    /\ cmd = None

\* C6 as claimed: name and args of the Command depend only on the text up
\* to the first newline of the trimmed input, args are the tokens of that
\* text after the first, in order, and raw_text is the whole input as given.
C6_UpToFirstNewlineOnly ==
    (origin = "parse" /\ cmd # None) =>
        \A line \in {UpToFirstNewline(Trimmed(text))} :
            /\ cmd.args = Tail(Tokens(line))
            /\ cmd.raw_text = text

\* C6 amended: the same with the text up to the first line boundary of
\* str.splitlines(), which a form feed is too; name and args are the ones
\* parse_command gives for that line alone.
C6_FirstLineOnly ==
    (origin = "parse" /\ cmd # None) =>
        \A line \in {UpToFirstBreak(Trimmed(text))} :
            \A alone \in {parse_command(line)} :
                /\ cmd.args = Tail(Tokens(line))
                /\ alone # None
                /\ cmd.name = alone.name
                /\ cmd.args = alone.args
                /\ cmd.raw_text = text

\* A Command with an argument, parsed from a text whose first line ends at a
\* form feed and that has a token after it.
C6_Witness ==
    /\ origin = "parse"
    /\ cmd # None
    /\ cmd.args # <<>>
    /\ \A i \in DOMAIN text : ~IsNewline(text[i])
    /\ Len(Tokens(text)) > Len(Tokens(UpToFirstBreak(Trimmed(text))))

\* C7 as claimed: blank lines followed by a command line give None.
C7_BlankLinesGiveAbsent ==
    (origin = "parse" /\ BlankLinesThenCommand(text)) => cmd = None

\* C7 amended: blank lines followed by a command line give the Command of
\* the text without these blank lines, raw_text being the whole text.
C7_BlankLinesAreTrimmed ==
    (origin = "parse" /\ BlankLinesThenCommand(text)) =>
        /\ cmd # None
        /\ parse_command(AfterBlankLines(text)) # None
        /\ cmd.name = parse_command(AfterBlankLines(text)).name
        /\ cmd.args = parse_command(AfterBlankLines(text)).args
        /\ cmd.raw_text = text

\* Two blank lines, then a command line with an argument.
C7_Witness ==
    /\ origin = "parse"
    /\ BlankLinesThenCommand(text)
    /\ IsLineBreak(text[1])
    /\ IsLineBreak(text[2])
    /\ cmd # None
    /\ cmd.args # <<>>

-----------------------------------------------------------------------------
(* Vocabulary of the dispatch properties. *)

\* The indices of the handler calls among the events ev.
Calls(ev) == {i \in DOMAIN ev : ev[i].type = "call"}

\* The indices of the log calls with the given tag among the events ev.
Logs(ev, tag) == {i \in DOMAIN ev : ev[i].type = "log" /\ ev[i].tag = tag}

\* The fields every result dict has.
BaseFields == {"handled", "command", "args", "meta"}

\* The number of marker characters s starts with.
LeadingMarkers(s) ==
    CHOOSE k \in 0..Len(s) :
        /\ \A i \in 1..k : s[i] = "/"
        /\ k = Len(s) \/ s[k + 1] # "/"

\* The text without its leading markers.
WithoutMarkers(t) == SubSeq(t, LeadingMarkers(t) + 1, Len(t))

\* The text with each upper-case letter replaced by its lower-case letter.
InLowerCase(t) == [i \in DOMAIN t |-> IF t[i] \in UpperLetters THEN LowerOf[t[i]] ELSE t[i]]

\* The name trimmed, without its leading markers, in lower case.
NormalForm(n) == InLowerCase(WithoutMarkers(Trimmed(n)))

\* v1 and v2 differ only in letter case and in the number of leading "/".
SimilarNames(v1, v2) ==
    LET k1 == LeadingMarkers(v1)
        k2 == LeadingMarkers(v2)
    IN  /\ Len(v1) - k1 = Len(v2) - k2
        /\ \A i \in 1..(Len(v1) - k1) :
              LowerChar(v1[k1 + i]) = LowerChar(v2[k2 + i])

\* The name has a character after its leading markers.
HasNameCharacter(v) == LeadingMarkers(v) < Len(v)

\* The normalized forms of the registered names, oldest first.
RegNormalForms == [i \in DOMAIN regs |-> NormalForm(regs[i].name)]

\* Registration i is the most recent one under its normalized name, nf being
\* the normalized forms of the registered names.
IsLatestOf(nf, i) == \A j \in DOMAIN nf : j > i => nf[j] # nf[i]

IsLatest(i) == IsLatestOf(RegNormalForms, i)

-----------------------------------------------------------------------------
(* Properties of registration and dispatch (specification Spec). *)

\* C1: whenever the handler call ended with an error, whatever its class,
\* handle_command returned the result dict of a handler exception: handled
\* false, reason "handler_exception", the name, args and meta of the call,
\* and a non-empty error string.
C1_HandlerErrorIsReturned ==
    (outcome # NoOutcome /\ \E i \in Calls(events) : events[i].result.kind = "raise")
        => /\ outcome.status = "returned"
           /\ ~outcome.result.handled
           /\ outcome.result.reason = "handler_exception"
           /\ outcome.result.command = cmd.name
           /\ outcome.result.args = cmd.args
           /\ outcome.result.meta = events[1].fields.meta
           /\ outcome.result.error # ""

\* C2: a dispatch of a Command whose name is not a key of the registry as it
\* stands calls no handler and returns the result dict of a miss, with the
\* name, args and meta it was given.
C2_MissIsNotFound ==
    [][\A meta \in Metas :
          (HandleCommand(meta) /\ cmd.name \notin DOMAIN registry)
              => /\ outcome'.status = "returned"
                 /\ outcome'.result =
                        [handled |-> FALSE, reason |-> "handler_not_found",
                         command |-> cmd.name, args |-> cmd.args,
                         meta |-> meta]
                 /\ Calls(events') = {}]_vars

\* A Command named "/health", built without the parser while "health" is a
\* key, was dispatched and missed.
C2_Witness ==
    /\ origin = "direct"
    /\ cmd.name = NameSlashHealth
    /\ NameHealth \in DOMAIN registry
    /\ outcome.status = "returned"
    /\ ~outcome.result.handled
    /\ outcome.result.reason = "handler_not_found"

\* C3: a dispatch that finds a handler which returns normally calls that
\* handler once, with one str parameter per argument in the order of
\* cmd.args, and returns handled true with the handler's return value.
C3_HitCallsHandlerWithExpandedArgs ==
    [][\A meta \in Metas :
          (/\ HandleCommand(meta)
           /\ cmd.name \in DOMAIN registry
           /\ \E i \in Calls(events') : events'[i].result.kind = "return")
              => /\ Cardinality(Calls(events')) = 1
                 /\ \A i \in Calls(events') :
                       /\ events'[i].handler = registry[cmd.name]
                       /\ Len(events'[i].params) = Len(cmd.args)
                       /\ \A k \in DOMAIN cmd.args :
                             /\ events'[i].params[k].kind = "str"
                             /\ events'[i].params[k].val = cmd.args[k]
                       /\ outcome'.status = "returned"
                       /\ outcome'.result.handled
                       /\ outcome'.result.handler_result =
                              events'[i].result.value]_vars

\* The echo handler was dispatched with two arguments and returned them as
\* two parameters.
C3_Witness ==
    /\ outcome.status = "returned"
    /\ outcome.result.handled
    /\ Len(cmd.args) = 2
    /\ \E i \in Calls(events) : events[i].handler = "echo"
    /\ outcome.result.handler_result =
           [echo |-> <<Str(cmd.args[1]), Str(cmd.args[2])>>]

\* C4: once a dispatch is over, however it ended, its first event is the
\* start log with name, args and meta, the lookup and the handler call come
\* after it, there is exactly one end log, it is the last event and carries
\* the returned result, and the warning or error log lies in between.
C4_StartFirstEndLast ==
    outcome # NoOutcome =>
        /\ Logs(events, "COMMAND_HANDLE_START") = {1}
        /\ events[1].fields =
               [name |-> cmd.name, args |-> cmd.args,
                meta |-> events[1].fields.meta]
        /\ Logs(events, "COMMAND_HANDLE_END") = {Len(events)}
        /\ outcome.status = "returned"
        /\ events[Len(events)].fields = [result |-> outcome.result]
        /\ \A i \in DOMAIN events :
              events[i].type \in {"lookup", "call"} => 1 < i /\ i < Len(events)
        /\ \A i \in DOMAIN events :
              (events[i].type = "log" /\ events[i].level \in {"warning", "error"})
                  => 1 < i /\ i < Len(events)

\* C8: the registry holds, under each key, the handler of the most recent
\* registration whose name normalizes to that key; every registered name
\* has its key; keys are normalized names, so there is one entry per
\* normalized name; and a dispatch calls no handler but the one the
\* registry holds under the command's name.
C8_RegistryState ==
    \A nf \in {RegNormalForms} :
        /\ \A k \in DOMAIN registry :
              /\ NormalForm(k) = k
              /\ \E i \in DOMAIN regs :
                    /\ nf[i] = k
                    /\ IsLatestOf(nf, i)
                    /\ registry[k] = regs[i].func
        /\ \A i \in DOMAIN regs : nf[i] \in DOMAIN registry

C8_DispatchStep ==
    \A meta \in Metas :
        HandleCommand(meta) =>
            \A nf \in {RegNormalForms} :
                \A e \in Calls(events') :
                    \E i \in DOMAIN regs :
                        /\ nf[i] = cmd.name
                        /\ IsLatestOf(nf, i)
                        /\ events'[e].handler = regs[i].func

C8_LastRegistrationWins == [](C8_RegistryState) /\ [][C8_DispatchStep]_vars

\* Two registrations after the static ones, under different names with the
\* same normalized form and with different handlers; a dispatch of that
\* command called the second handler.
C8_Witness ==
    /\ Len(regs) = Len(StaticRegistrations) + 2
    /\ regs[Len(regs) - 1].name # regs[Len(regs)].name
    /\ NormalForm(regs[Len(regs) - 1].name) = NormalForm(regs[Len(regs)].name)
    /\ regs[Len(regs) - 1].func # regs[Len(regs)].func
    /\ registry[NormalForm(regs[Len(regs)].name)] = regs[Len(regs)].func
    /\ outcome # NoOutcome
    /\ cmd.name = NormalForm(regs[Len(regs)].name)
    /\ \E e \in Calls(events) : events[e].handler = regs[Len(regs)].func

\* C9 as claimed: for every registration that is the latest under its
\* normalized name, a text whose first token differs from the registered
\* name only in case and leading markers parses to a Command, and the
\* dispatch of that Command calls the registered handler.
C9_SimilarTokenParses ==
    (origin = "parse" /\ ~IsBlank(text)) =>
        \A token \in {Tokens(text)[1]} :
            \A i \in DOMAIN regs :
                SimilarNames(regs[i].name, token) => cmd # None

C9_SimilarTokenDispatches ==
    \A meta \in Metas :
        (HandleCommand(meta) /\ origin = "parse") =>
            \A nf \in {RegNormalForms}, token \in {Tokens(text)[1]} :
                \A i \in DOMAIN regs :
                    (SimilarNames(regs[i].name, token) /\ IsLatestOf(nf, i))
                        => \E e \in Calls(events') :
                               events'[e].handler = regs[i].func

C9_SimilarTokenReachesHandler ==
    [](C9_SimilarTokenParses) /\ [][C9_SimilarTokenDispatches]_vars

\* C9 amended: the same for registered names that have a character after
\* their leading markers.
C9_NamedTokenParses ==
    (origin = "parse" /\ ~IsBlank(text)) =>
        \A token \in {Tokens(text)[1]} :
            \A i \in DOMAIN regs :
                (/\ SimilarNames(regs[i].name, token)
                 /\ HasNameCharacter(regs[i].name))
                    => cmd # None

C9_NamedTokenReachesHandler ==
    [](C9_NamedTokenParses) /\ [][C9_SimilarTokenDispatches]_vars

\* The handler registered as "/health" was called for a body whose first
\* token is "//HEALTH".
C9_Witness ==
    /\ origin = "parse"
    /\ ~IsBlank(text)
    /\ Tokens(text)[1] = <<"/", "/">> \o upper(NameHealth)
    /\ \E i \in DOMAIN regs :
          /\ regs[i].name = NameSlashHealth
          /\ IsLatest(i)
          /\ \E e \in Calls(events) : events[e].handler = regs[i].func

\* C10 as claimed: a returned result dict has the base fields and either
\* handler_result alone (exactly when handled) or both reason and error
\* (exactly when not handled).
C10_ReasonAlwaysWithError ==
    outcome.status = "returned" =>
        LET r == outcome.result
        IN  /\ BaseFields \subseteq DOMAIN r
            /\ r.handled \in BOOLEAN
            /\ IF r.handled
               THEN DOMAIN r = BaseFields \cup {"handler_result"}
               ELSE /\ DOMAIN r = BaseFields \cup {"reason", "error"}
                    /\ r.reason \in {"handler_not_found", "handler_exception"}

\* C10 amended: when not handled the dict has reason, and error exactly when
\* the reason is handler_exception.
C10_ResultShape ==
    outcome.status = "returned" =>
        LET r == outcome.result
        IN  /\ BaseFields \subseteq DOMAIN r
            /\ r.handled \in BOOLEAN
            /\ r.command = cmd.name
            /\ r.args = cmd.args
            /\ r.meta \in Metas
            /\ IF r.handled
               THEN DOMAIN r = BaseFields \cup {"handler_result"}
               ELSE /\ r.reason \in {"handler_not_found", "handler_exception"}
                    /\ DOMAIN r = BaseFields \cup
                           (IF r.reason = "handler_exception"
                            THEN {"reason", "error"} ELSE {"reason"})

\* A miss was returned: reason without error.
C10_Witness ==
    /\ outcome.status = "returned"
    /\ ~outcome.result.handled
    /\ outcome.result.reason = "handler_not_found"
    /\ "error" \notin DOMAIN outcome.result

-----------------------------------------------------------------------------
(* C11: errors of a handler's own work. *)

\* The collaborator calls of the handler call recorded at position i of the
\* events that ended by raising.
RaisedIn(ev, i) ==
    {k \in DOMAIN ev[i].result.work : ev[i].result.work[k].kind = "raise"}

\* C11: whenever a dispatch called one of the handlers of the repository and
\* the fetch, the ping or the send of that handler raised, the dispatch
\* returns an Outcome with handled false and reason "handler_exception".
C11_WorkErrorIsHandlerException ==
    (outcome # NoOutcome
        /\ \E i \in Calls(events) :
              events[i].handler \in RepoHandlers /\ RaisedIn(events, i) # {})
    => /\ outcome.status = "returned"
       /\ ~outcome.result.handled
       /\ outcome.result.reason = "handler_exception"

-----------------------------------------------------------------------------
(* C13: the results of send_email_to_recipients. *)

\* The call has ended, by returning or by an exception.
SendEnded == smtp.pc \in {"returned", "raised"}

\* results has one element per recipient, in recipient order, each with the
\* recipient in `to`; sendmail was attempted once for every recipient, in
\* order; a failed attempt is recorded with success false and a non-empty
\* error, a successful one with success true and an empty error.
OneResultPerRecipient ==
    /\ smtp.pc = "returned"
    /\ Len(smtp.results) = Len(smtp.recipients)
    /\ Len(smtp.attempts) = Len(smtp.recipients)
    /\ \A i \in DOMAIN smtp.recipients :
          /\ smtp.results[i].to = smtp.recipients[i]
          /\ smtp.attempts[i].to = smtp.recipients[i]
          /\ smtp.results[i].success = (smtp.attempts[i].kind = "return")
          /\ smtp.results[i].success => smtp.results[i].error = ""
          /\ ~smtp.results[i].success => smtp.results[i].error # ""

-----------------------------------------------------------------------------
(* C12: the \Seen flag and repeated dispatch. *)

\* The last call of process_single_imap_message fetched its mail and came to
\* its end on one of its three return paths.
ProcessedToTheEnd ==
    /\ imap.last # None
    /\ imap.last.fetched
    /\ imap.last.ended = "return"

\* C12: a mail that process_single_imap_message fetched and processed to the
\* end of one of its paths has the \Seen flag, and over all rounds and
\* reconnects of the loop the command of no mail is dispatched more than
\* once.
C12_SeenAndDispatchedAtMostOnce ==
    /\ ProcessedToTheEnd => imap.seen[imap.last.num]
    /\ \A num \in DOMAIN imap.mails : imap.dispatched[num] <= 1

=============================================================================
